---- MODULE Spec2Model ----
(***************************************************************************)
(* The incremental index engine of i18n-manager: WorkspaceScanner          *)
(* (src/src/workspace-scanner.ts).  One engine instance is modelled: its   *)
(* two ReplaySubject(1) streams, the fields mirroring them, the initial    *)
(* scan (findFiles, one openTextDocument promise per file, Promise.all),   *)
(* the save listener with its per-notification setInterval retry, the      *)
(* delta update onDocumentSave, the derived validated view and deactivate. *)
(* StreamSpec adds consumers subscribing to validatedResultsById$;         *)
(* ValidationSpec and NormalizationSpec apply the validation's map         *)
(* callback to buckets drawn from bounded sets.                            *)
(*                                                                         *)
(* A JS Map is a function whose DOMAIN is the key set.  An optional value  *)
(* (value?: string, a field that may be undefined) is a sequence of length *)
(* at most one: <<>> is undefined, <<v>> is v.  A string value is the      *)
(* sequence of its characters.                                             *)
(***************************************************************************)
EXTENDS Naturals, Sequences, FiniteSets, TLC

\* ---------------------------------------------------------------- bounds
\* How many save notifications the environment sends in one behaviour.
MaxSaves == 2
\* How many times initialize() is called in one behaviour.
MaxInitCalls == 2
\* How many occurrences one bucket entering the validation holds at most.
MaxBucket == 3
\* How many tokens a value entering the normalization is made of at most.
MaxTokens == 3

\* ------------------------------------------------------------- the corpus
\* Documents whose uri.path ends with '.html' (what findFiles('**/*.html')
\* returns) and one that does not.
HtmlDocs == {"a.html", "b.html"}
OtherDocs == {"notes.txt"}
Docs == HtmlDocs \cup OtherDocs

endsWithHtml(uri) == uri \in HtmlDocs

\* The consumers that subscribe to validatedResultsById$.
Consumers == {"first", "second"}

\* ---------------------------------------------------------------- strings
HiName == <<"H", "i", " ", "{", "{", "n", "}", "}">>
HiOther == <<"H", "i", " ", "{", "{", "o", "}", "}">>
ByeOther == <<"Y", "o", " ", "{", "{", "o", "}", "}">>
HtmlHi == <<"<", "b", ">", "H", "i">>

MismatchError == "There are other items registered with this ID whose value do not match!"
HtmlWarning == "This translation contains HTML tag. This is not recommended!"
NoError == "(undefined)"

\* A WalkerResult record as the extractor returns it.
Occ(id, value, state, error) == [id |-> id, value |-> value, state |-> state, error |-> error]
Ok(id, str) == Occ(id, <<str>>, "success", NoError)

\* The text of a document: whether it is the empty string, and the i18n
\* attributes its markup carries, in document order.
Text(marks) == [empty |-> FALSE, marks |-> marks]
EmptyText == [empty |-> TRUE, marks |-> <<>>]

Texts ==
    { EmptyText,
      Text(<<Ok("welcome", HiName)>>),
      Text(<<Ok("welcome", ByeOther)>>),
      Text(<<Occ("welcome", <<>>, "success", NoError), Ok("bye", HtmlHi)>>),
      Text(<<Ok("bye", HiName), Ok("bye", HiName)>>) }

\* The corpus when the extension starts: a.html and b.html share the id
\* 'welcome' with normalized-equal values, or b.html is empty.
InitialTexts ==
    { [uri \in HtmlDocs |-> IF uri = "a.html" THEN Text(<<Ok("welcome", HiName)>>)
                                               ELSE Text(<<Ok("welcome", HiOther)>>)],
      [uri \in HtmlDocs |-> IF uri = "a.html" THEN Text(<<Ok("welcome", HiName)>>)
                                               ELSE EmptyText] }

\* ------------------------------------------------------------------ state
VARIABLES
    _state,            \* 'uninitialized' | 'initializing' | 'initialized'
    _instance,         \* WorkspaceScanner._instance is set
    _resultsByFile,    \* the field: <<>> (undefined) or <<map>>
    _resultsById,      \* the field: <<>> (undefined) or <<map>>
    resultsByFileSubject,  \* _resultsByFile$: [buffer, closed]
    resultsByIdSubject,    \* _resultsById$: [buffer, closed]
    destroyed,         \* _onDestroy$ has emitted
    docText,           \* the current text of every html document
    registered,        \* registerEvents has run (the save listener exists)
    scan,              \* the initial scan: "none" | "finding" | "opening" | "resolved" | "rejected"
    opened,            \* per file of the scan: "pending" | "done" | "failed"
    resultByFileName,  \* initialize's local map
    resultById,        \* initialize's local map
    signals,           \* the completion signal of every initialize() call:
                       \* [kind, fired, ready (the index was published when
                       \* it fired), errored (it carried a failure)]
    notifications,     \* the save notifications so far: [doc, state]
    intervals,         \* the live setInterval timers, next to fire first
    applied,           \* the notifications onDocumentSave processed, in order
    unhandled,         \* onDocumentSave returned at its 'not initialized' guard
    fileGen,           \* emissions of _resultsByFile$ so far
    idGen,             \* emissions of _resultsById$ so far
    observed,          \* the (fileGen, idGen) pairs subscriber callbacks saw
    lastExtracted,     \* per document, the extraction result processed last
    subscribers,       \* the consumers subscribed to validatedResultsById$
    received,          \* per consumer, the latest validated view it was handed
    bucket,            \* one entry of a by-id snapshot entering the validation
    validatedBucket    \* what the validation's map callback made of it

vars == <<_state, _instance, _resultsByFile, _resultsById, resultsByFileSubject,
          resultsByIdSubject, destroyed, docText, registered, scan, opened,
          resultByFileName, resultById, signals, notifications, intervals,
          applied, unhandled, fileGen, idGen, observed, lastExtracted,
          subscribers, received, bucket, validatedBucket>>

EmptyMap == [k \in {} |-> <<>>]

\* ------------------------------------------------------------- JS helpers
MapSet(m, k, v) == [x \in DOMAIN m \cup {k} |-> IF x = k THEN v ELSE m[x]]
MapDelete(m, k) == [x \in DOMAIN m \ {k} |-> m[x]]

\* Boolean(value) of an optional string: undefined and '' are falsy.
Truthy(v) == v # <<>> /\ v[1] # <<>>

\* { ...res, file: uri }
newRecord(res, uri) ==
    [id |-> res.id, value |-> res.value, state |-> res.state, error |-> res.error, file |-> uri]

\* A findIndex taking the first record, whatever its file.
findIndexAny(entry, uri) == IF Len(entry) > 0 THEN 1 ELSE 0

\* entry.findIndex(c => c.file.toString() === uri); 0 stands for -1.
findIndex(entry, uri) ==
    IF \E i \in 1..Len(entry) : entry[i].file = uri
    THEN CHOOSE i \in 1..Len(entry) :
            /\ entry[i].file = uri
            /\ \A j \in 1..(i - 1) : entry[j].file # uri
    ELSE 0

\* entry.splice(i, 1)
splice(entry, i) == SubSeq(entry, 1, i - 1) \o SubSeq(entry, i + 1, Len(entry))

\* Walker.geti18nAttributes() of the parsed text: the attributes in order.
geti18nAttributes(text) == text.marks

getI18nResultsForFile(text) ==
    IF text.empty THEN <<>> ELSE geti18nAttributes(text)

\* --------------------------------------------------------- strippedString
removeNewlines(s) == SelectSeq(s, LAMBDA c : c \notin {"\n", "\r"})

\* The first index >= k holding '}', or 0.
firstClose(s, k) ==
    IF \E j \in k..Len(s) : s[j] = "}"
    THEN CHOOSE j \in k..Len(s) : s[j] = "}" /\ \A h \in k..(j - 1) : s[h] # "}"
    ELSE 0

\* replace(/{{[^}]+}}/gi, '{}') scanning from index i.
RECURSIVE replacePlaceholders(_, _)
replacePlaceholders(s, i) ==
    IF i > Len(s) THEN <<>>
    ELSE LET k == firstClose(s, i + 2)
         IN IF /\ i + 1 <= Len(s)
               /\ s[i] = "{"
               /\ s[i + 1] = "{"
               /\ k > i + 2
               /\ k + 1 <= Len(s)
               /\ s[k + 1] = "}"
            THEN <<"{", "}">> \o replacePlaceholders(s, k + 2)
            ELSE <<s[i]>> \o replacePlaceholders(s, i + 1)

\* replace(/ +/g, ' ')
RECURSIVE collapseSpaces(_, _)
collapseSpaces(s, i) ==
    IF i > Len(s) THEN <<>>
    ELSE IF s[i] = " " /\ i > 1 /\ s[i - 1] = " "
         THEN collapseSpaces(s, i + 1)
         ELSE <<s[i]>> \o collapseSpaces(s, i + 1)

strippedString(str) ==
    IF ~Truthy(str) THEN str
    ELSE <<collapseSpaces(replacePlaceholders(removeNewlines(str[1]), 1), 1)>>

\* ---------------------------------------------------- the validated view
\* results.map(result => result.value) without the filter(Boolean).
allValues(results) == [i \in 1..Len(results) |-> results[i].value]

\* results.map(result => result.value).filter(Boolean)
truthyValues(results) ==
    SelectSeq([i \in 1..Len(results) |-> results[i].value], Truthy)

valuesMismatch(results) ==
    LET values == truthyValues(results)
        stripped0 == IF values = <<>> THEN <<>> ELSE strippedString(values[1])
    IN  /\ Len(values) > 1
        /\ \E i \in 1..Len(values) : strippedString(values[i]) # stripped0

\* The consistency rule marking only the occurrences that differ from the first.
consistencyRuleOnlyDiffering(results) ==
    LET values == truthyValues(results)
    IN [i \in 1..Len(results) |->
            IF /\ valuesMismatch(results)
               /\ strippedString(results[i].value) # strippedString(values[1])
            THEN [results[i] EXCEPT !.state = "error", !.error = MismatchError]
            ELSE results[i]]

consistencyRule(results) ==
    IF valuesMismatch(results)
    THEN [i \in 1..Len(results) |->
            [results[i] EXCEPT !.state = "error", !.error = MismatchError]]
    ELSE results

\* The shape rule without its state !== 'success' guard.
shapeRuleAnyState(result) ==
    IF Truthy(result.value) /\ \E j \in 1..Len(result.value[1]) : result.value[1][j] = "<"
    THEN [result EXCEPT !.state = "warning", !.error = HtmlWarning]
    ELSE result

\* The second loop of the map callback (lines 45-54) on one record.
shapeRuleOne(result) ==
    IF result.state # "success" THEN result
    ELSE IF Truthy(result.value) /\ \E j \in 1..Len(result.value[1]) : result.value[1][j] = "<"
         THEN [result EXCEPT !.state = "warning", !.error = HtmlWarning]
         ELSE result

shapeRule(results) == [i \in 1..Len(results) |-> shapeRuleOne(results[i])]

\* The map(...) of validatedResultsById$ applied to one by-id snapshot.
validatedResultsById(res) == [key \in DOMAIN res |-> shapeRule(consistencyRule(res[key]))]

\* ------------------------------------------- inputs of the validation
\* What an extractor-reported 'warning' or 'error' record carries as error.
WalkerNote == "(extractor message)"

\* Values an occurrence may carry: none, the empty string, and strings.
SampleValues == {<<>>, <<<<>>>>, <<HiName>>, <<HiOther>>, <<ByeOther>>, <<HtmlHi>>}

\* The by-id records of id 'welcome' the extractor can hand over.
SampleRecords ==
    {newRecord(Occ("welcome", v, "success", NoError), "a.html") : v \in SampleValues}
    \cup {newRecord(Occ("welcome", v, st, WalkerNote), "a.html") :
                v \in SampleValues, st \in {"warning", "error"}}

RECURSIVE SeqsUpTo(_, _)
SeqsUpTo(S, n) ==
    IF n = 0 THEN {<<>>}
    ELSE LET shorter == SeqsUpTo(S, n - 1)
         IN shorter \cup {Append(q, x) : q \in shorter, x \in S}

Buckets == SeqsUpTo(SampleRecords, MaxBucket)

\* The pieces values are made of: a letter, a space, a newline, braces.
Tokens == {<<"a">>, <<" ">>, <<"\n">>, <<"{", "{">>, <<"}", "}">>, <<"{">>, <<"}">>}

RECURSIVE TokenStrings(_)
TokenStrings(n) ==
    IF n = 0 THEN {<<>>}
    ELSE LET shorter == TokenStrings(n - 1)
         IN shorter \cup {q \o t : q \in shorter, t \in Tokens}

\* Buckets of two 'success' records of two documents.
PairBuckets ==
    {<<newRecord(Ok("welcome", v), "a.html"), newRecord(Ok("welcome", w), "b.html")>> :
        v \in TokenStrings(MaxTokens), w \in TokenStrings(MaxTokens)}

\* ------------------------------------------------- onDocumentSave's maps
\* 'remove old id maps': for every old result of the document, splice the
\* first record of that file out of its id's entry.
RECURSIVE removeOld(_, _, _, _)
removeOld(idMap, oldRegistry, i, uri) ==
    IF i > Len(oldRegistry) THEN idMap
    ELSE LET id == oldRegistry[i].id
         IN IF id \notin DOMAIN idMap
            THEN removeOld(idMap, oldRegistry, i + 1, uri)
            ELSE LET entry == idMap[id]
                     fileIndex == findIndex(entry, uri)
                 IN IF fileIndex = 0
                    THEN removeOld(idMap, oldRegistry, i + 1, uri)
                    ELSE LET rest == splice(entry, fileIndex)
                         IN removeOld(IF Len(rest) = 0 THEN MapDelete(idMap, id)
                                      ELSE MapSet(idMap, id, rest),
                                      oldRegistry, i + 1, uri)

\* 'add new id maps' (and initialize's walkerResults.forEach): push every
\* result, tagged with the file, on its id's entry.
RECURSIVE addNew(_, _, _, _)
addNew(idMap, results, i, uri) ==
    IF i > Len(results) THEN idMap
    ELSE LET id == results[i].id
             rec == newRecord(results[i], uri)
         IN addNew(IF id \in DOMAIN idMap THEN MapSet(idMap, id, Append(idMap[id], rec))
                   ELSE MapSet(idMap, id, <<rec>>),
                   results, i + 1, uri)

\* newFileMap of onDocumentSave (lines 83-84).
newFileMap(byFile, uri, results) == MapSet(byFile, uri, results)

\* newIdMap without the 'remove old id maps' pass.
newIdMapKeepsOld(byFile, byId, uri, results) == addNew(byId, results, 1, uri)

\* newIdMap of onDocumentSave (lines 86-114).
newIdMap(byFile, byId, uri, results) ==
    LET oldRegistry == IF uri \in DOMAIN byFile THEN byFile[uri] ELSE <<>>
    IN addNew(removeOld(byId, oldRegistry, 1, uri), results, 1, uri)

\* The records the arrays of the previous by-id Map hold once
\* onDocumentSave has run (lines 86-114): new Map(this._resultsById) copies
\* the keys but shares every entry array, entry.splice and entry.push work
\* in place, and an entry emptied by splice stays under its key in the
\* previous Map while newIdMap.delete removes it from the new one only.
previousIdMapAfterSave(byFile, byId, uri, results) ==
    LET oldRegistry == IF uri \in DOMAIN byFile THEN byFile[uri] ELSE <<>>
        removed == removeOld(byId, oldRegistry, 1, uri)
        added == addNew(removed, results, 1, uri)
    IN [id \in DOMAIN byId |-> IF id \in DOMAIN removed THEN added[id] ELSE <<>>]

\* A next(value) that is not ignored after complete().
subjectNextAfterComplete(subject, value) == [subject EXCEPT !.buffer = <<value>>]

\* ReplaySubject(1).next(value): ignored once the subject is completed.
subjectNext(subject, value) ==
    IF subject.closed THEN subject ELSE [subject EXCEPT !.buffer = <<value>>]

\* ------------------------------------------------------------------ Init
\* The engine right after its constructor ran (the singleton getter).
InitEngine ==
    /\ _state = "uninitialized"
    /\ _instance = TRUE
    /\ _resultsByFile = <<>>
    /\ _resultsById = <<>>
    /\ resultsByFileSubject = [buffer |-> <<>>, closed |-> FALSE]
    /\ resultsByIdSubject = [buffer |-> <<>>, closed |-> FALSE]
    /\ destroyed = FALSE
    /\ docText \in InitialTexts
    /\ registered = FALSE
    /\ scan = "none"
    /\ opened = [d \in HtmlDocs |-> "pending"]
    /\ resultByFileName = EmptyMap
    /\ resultById = EmptyMap
    /\ signals = <<>>
    /\ notifications = <<>>
    /\ intervals = <<>>
    /\ applied = <<>>
    /\ unhandled = FALSE
    /\ fileGen = 0
    /\ idGen = 0
    /\ observed = {}
    /\ lastExtracted = EmptyMap
    /\ subscribers = {}
    /\ received = [c \in Consumers |-> <<>>]

Init ==
    /\ InitEngine
    /\ bucket = <<>>
    /\ validatedBucket = <<>>

pubVars == <<_resultsByFile, _resultsById, resultsByFileSubject, resultsByIdSubject,
             fileGen, idGen, observed, received>>
validationVars == <<bucket, validatedBucket>>
scanVars == <<scan, opened, resultByFileName, resultById>>

\* this._resultsByFile$.next(fileMap); this._resultsById$.next(idMap);
\* each next runs the subscribers' callbacks before it returns: the
\* constructor's (which set the fields) and a consumer's, which sees the
\* latest emission of either stream at that moment.
Publish(fileMap, idMap) ==
    /\ resultsByFileSubject' = subjectNext(resultsByFileSubject, fileMap)
    /\ resultsByIdSubject' = subjectNext(resultsByIdSubject, idMap)
    /\ _resultsByFile' = IF resultsByFileSubject.closed THEN _resultsByFile ELSE <<fileMap>>
    /\ _resultsById' = IF resultsByIdSubject.closed THEN _resultsById ELSE <<idMap>>
    /\ fileGen' = IF resultsByFileSubject.closed THEN fileGen ELSE fileGen + 1
    /\ idGen' = IF resultsByIdSubject.closed THEN idGen ELSE idGen + 1
    /\ observed' = observed
            \cup (IF resultsByFileSubject.closed THEN {} ELSE {<<fileGen + 1, idGen>>})
            \cup (IF resultsByIdSubject.closed THEN {} ELSE {<<fileGen', idGen + 1>>})
    /\ received' = IF resultsByIdSubject.closed THEN received
                   ELSE [c \in Consumers |-> IF c \in subscribers
                                              THEN <<validatedResultsById(idMap)>>
                                              ELSE received[c]]

\* onDocumentSave building on the maps of the initial scan instead of the
\* latest published ones.
onDocumentSaveFromScan(s, uri, texts) ==
    IF ~endsWithHtml(uri)
    THEN UNCHANGED <<pubVars, applied, unhandled, lastExtracted>>
    ELSE IF _resultsByFile = <<>> \/ _resultsById = <<>>
         THEN unhandled' = TRUE /\ UNCHANGED <<pubVars, applied, lastExtracted>>
         ELSE LET results == getI18nResultsForFile(texts[uri])
              IN /\ Publish(newFileMap(resultByFileName, uri, results),
                            newIdMap(resultByFileName, resultById, uri, results))
                 /\ applied' = Append(applied, s)
                 /\ lastExtracted' = MapSet(lastExtracted, uri, results)
                 /\ UNCHANGED unhandled

\* onDocumentSave(document) for notification s.
onDocumentSave(s, uri, texts) ==
    IF ~endsWithHtml(uri)
    THEN UNCHANGED <<pubVars, applied, unhandled, lastExtracted>>
    ELSE IF _resultsByFile = <<>> \/ _resultsById = <<>>
         THEN unhandled' = TRUE /\ UNCHANGED <<pubVars, applied, lastExtracted>>
         ELSE LET results == getI18nResultsForFile(texts[uri])
              IN /\ Publish(newFileMap(_resultsByFile[1], uri, results),
                            newIdMap(_resultsByFile[1], _resultsById[1], uri, results))
                 /\ applied' = Append(applied, s)
                 /\ lastExtracted' = MapSet(lastExtracted, uri, results)
                 /\ UNCHANGED unhandled

\* savedDocumentSubject.next(doc): the subscription ends with _onDestroy$.
savedDocumentSubjectNext(s, uri, texts) ==
    IF destroyed
    THEN UNCHANGED <<pubVars, applied, unhandled, lastExtracted>>
    ELSE onDocumentSave(s, uri, texts)

\* Both views of a snapshot have been published.
indexReady == fileGen > 0 /\ idGen > 0

\* --------------------------------------------------------------- actions
\* initialize() in state 'uninitialized'.
InitializeStart ==
    /\ _instance
    /\ Len(signals) < MaxInitCalls
    /\ _state = "uninitialized"
    /\ registered' = TRUE
    /\ _state' = "initializing"
    /\ scan' = "finding"
    /\ resultByFileName' = EmptyMap
    /\ resultById' = EmptyMap
    /\ opened' = [d \in HtmlDocs |-> "pending"]
    /\ signals' = Append(signals, [kind |-> "finalizeSubject", fired |-> FALSE, ready |-> FALSE, errored |-> FALSE])
    /\ UNCHANGED <<_instance, pubVars, destroyed, docText, notifications, intervals,
                   applied, unhandled, lastExtracted, subscribers,
                   validationVars>>

\* An initialize() that starts a scan in any state.
InitializeAgainRescans ==
    /\ _instance
    /\ Len(signals) < MaxInitCalls
    /\ _state # "uninitialized"
    /\ _state' = "initializing"
    /\ scan' = "finding"
    /\ resultByFileName' = EmptyMap
    /\ resultById' = EmptyMap
    /\ opened' = [d \in HtmlDocs |-> "pending"]
    /\ signals' = Append(signals, [kind |-> "finalizeSubject", fired |-> FALSE, ready |-> FALSE, errored |-> FALSE])
    /\ UNCHANGED <<_instance, pubVars, destroyed, docText, registered, notifications,
                   intervals, applied, unhandled, lastExtracted, subscribers,
                   validationVars>>

\* initialize() in any other state: return of(undefined), which emits to
\* its subscriber at once.
InitializeAgain ==
    /\ _instance
    /\ Len(signals) < MaxInitCalls
    /\ _state # "uninitialized"
    /\ signals' = Append(signals, [kind |-> "of", fired |-> TRUE, ready |-> indexReady, errored |-> FALSE])
    /\ UNCHANGED <<_state, _instance, pubVars, destroyed, docText, registered, scanVars,
                   notifications, intervals, applied, unhandled, lastExtracted, subscribers,
                   validationVars>>

\* workspace.findFiles('**/*.html').then(files => ...): one
\* openTextDocument promise per file.
FindFilesThen ==
    /\ scan = "finding"
    /\ scan' = "opening"
    /\ UNCHANGED <<_state, _instance, pubVars, destroyed, docText, registered, opened,
                   resultByFileName, resultById, signals, notifications, intervals,
                   applied, unhandled, lastExtracted, subscribers,
                   validationVars>>

\* openTextDocument(uri).then(document => ...) of one file.
OpenDocumentThen(uri) ==
    /\ scan \in {"opening", "rejected"}
    /\ opened[uri] = "pending"
    /\ LET walkerResults == getI18nResultsForFile(docText[uri])
       IN IF Len(walkerResults) > 0
          THEN /\ resultByFileName' = MapSet(resultByFileName, uri, walkerResults)
               /\ resultById' = addNew(resultById, walkerResults, 1, uri)
          ELSE UNCHANGED <<resultByFileName, resultById>>
    /\ opened' = [opened EXCEPT ![uri] = "done"]
    /\ lastExtracted' = MapSet(lastExtracted, uri, getI18nResultsForFile(docText[uri]))
    /\ UNCHANGED <<_state, _instance, pubVars, destroyed, docText, registered, scan,
                   signals, notifications, intervals, applied, unhandled, subscribers,
                   validationVars>>

\* The promise of one file rejects: the document cannot be opened or parsed.
OpenDocumentFails(uri) ==
    /\ scan \in {"opening", "rejected"}
    /\ opened[uri] = "pending"
    /\ opened' = [opened EXCEPT ![uri] = "failed"]
    /\ UNCHANGED <<_state, _instance, pubVars, destroyed, docText, registered, scan,
                   resultByFileName, resultById, signals, notifications, intervals,
                   applied, unhandled, lastExtracted, subscribers,
                   validationVars>>

\* Promise.allSettled in place of Promise.all: the join runs once no promise
\* is pending, whether or not one rejected.
PromiseAllSettledThen ==
    /\ scan = "opening"
    /\ \A uri \in HtmlDocs : opened[uri] # "pending"
    /\ _state' = "initialized"
    /\ Publish(resultByFileName, resultById)
    /\ signals' = [signals EXCEPT ![1] = [@ EXCEPT !.fired = TRUE,
                                                   !.ready = fileGen' > 0 /\ idGen' > 0]]
    /\ scan' = "resolved"
    /\ UNCHANGED <<_instance, destroyed, docText, registered, opened, resultByFileName,
                   resultById, notifications, intervals, applied, unhandled, lastExtracted, subscribers,
                   validationVars>>

\* Promise.all(promises).then(() => ...)
PromiseAllThen ==
    /\ scan = "opening"
    /\ \A uri \in HtmlDocs : opened[uri] = "done"
    /\ _state' = "initialized"
    /\ Publish(resultByFileName, resultById)
    /\ signals' = [signals EXCEPT ![1] = [@ EXCEPT !.fired = TRUE,
                                                   !.ready = fileGen' > 0 /\ idGen' > 0]]
    /\ scan' = "resolved"
    /\ UNCHANGED <<_instance, destroyed, docText, registered, opened, resultByFileName,
                   resultById, notifications, intervals, applied, unhandled, lastExtracted, subscribers,
                   validationVars>>

\* Promise.all(promises)...catch(err => console.error(...))
PromiseAllCatch ==
    /\ scan = "opening"
    /\ \E uri \in HtmlDocs : opened[uri] = "failed"
    /\ scan' = "rejected"
    /\ UNCHANGED <<_state, _instance, pubVars, destroyed, docText, registered, opened,
                   resultByFileName, resultById, signals, notifications, intervals,
                   applied, unhandled, lastExtracted, subscribers,
                   validationVars>>

\* The onDidSaveTextDocument listener: the document uri was saved with text.
SaveTextDocument(uri, text) ==
    /\ registered
    /\ Len(notifications) < MaxSaves
    /\ LET s == Len(notifications) + 1
           texts == IF uri \in HtmlDocs THEN [docText EXCEPT ![uri] = text] ELSE docText
       IN /\ docText' = texts
          /\ notifications' = Append(notifications, [doc |-> uri, state |-> _state])
          /\ IF _state = "initialized"
             THEN savedDocumentSubjectNext(s, uri, texts) /\ UNCHANGED intervals
             ELSE /\ intervals' = Append(intervals, s)
                  /\ UNCHANGED <<pubVars, applied, unhandled, lastExtracted>>
    /\ UNCHANGED <<_state, _instance, destroyed, registered, scanVars, signals,
                   subscribers, validationVars>>

\* The setInterval callback without its clearInterval.
IntervalTickKeepsTimer ==
    /\ intervals # <<>>
    /\ LET s == Head(intervals)
       IN /\ IF _state = "initialized"
             THEN savedDocumentSubjectNext(s, notifications[s].doc, docText)
             ELSE UNCHANGED <<pubVars, applied, unhandled, lastExtracted>>
          /\ intervals' = Append(Tail(intervals), s)
    /\ UNCHANGED <<_state, _instance, destroyed, docText, registered, scanVars, signals,
                   notifications, subscribers, validationVars>>

\* The setInterval callback of the timer that is next to fire.  A timer
\* that does not deliver fires again one period later, after every other
\* live timer.
IntervalTick ==
    /\ intervals # <<>>
    /\ LET s == Head(intervals)
       IN IF _state = "initialized"
          THEN /\ savedDocumentSubjectNext(s, notifications[s].doc, docText)
               /\ intervals' = Tail(intervals)
          ELSE /\ intervals' = Append(Tail(intervals), s)
               /\ UNCHANGED <<pubVars, applied, unhandled, lastExtracted>>
    /\ UNCHANGED <<_state, _instance, destroyed, docText, registered, scanVars, signals,
                   notifications, subscribers, validationVars>>

\* WorkspaceScanner.deactivate()
Deactivate ==
    IF ~_instance
    THEN UNCHANGED vars
    ELSE /\ resultsByFileSubject' = [resultsByFileSubject EXCEPT !.closed = TRUE]
         /\ resultsByIdSubject' = [resultsByIdSubject EXCEPT !.closed = TRUE]
         /\ destroyed' = TRUE
         /\ _instance' = FALSE
         /\ subscribers' = {}
         /\ UNCHANGED <<_state, _resultsByFile, _resultsById, fileGen, idGen, observed,
                        received, docText, registered, scanVars, signals, notifications,
                        intervals, applied, unhandled, lastExtracted, validationVars>>

\* consumer.subscribe on validatedResultsById$ while the engine lives.  The
\* first subscription makes share() subscribe its inner Subject to
\* _resultsById$, whose ReplaySubject(1) replays the latest snapshot through
\* map(...); a later subscription joins the inner Subject, which replays
\* nothing.
Subscribe(c) ==
    /\ ~destroyed
    /\ c \notin subscribers
    /\ subscribers' = subscribers \cup {c}
    /\ received' = [received EXCEPT ![c] =
                        IF subscribers = {} /\ resultsByIdSubject.buffer # <<>>
                        THEN <<validatedResultsById(resultsByIdSubject.buffer[1])>>
                        ELSE <<>>]
    /\ UNCHANGED <<_state, _instance, _resultsByFile, _resultsById, resultsByFileSubject,
                   resultsByIdSubject, destroyed, docText, registered, scanVars, signals,
                   notifications, intervals, applied, unhandled, fileGen, idGen, observed,
                   lastExtracted, validationVars>>

engineVars == <<_state, _instance, pubVars, destroyed, docText, registered, scanVars,
                signals, notifications, intervals, applied, unhandled, lastExtracted,
                subscribers>>

\* The map callback writing its result into the entry it was handed.
ValidateBucketInPlace ==
    /\ validatedBucket = <<>>
    /\ validatedBucket' = <<shapeRule(consistencyRule(bucket))>>
    /\ bucket' = validatedBucket'[1]
    /\ UNCHANGED engineVars

\* The map callback of validatedResultsById$ on one entry of the snapshot:
\* it works on resultsCopy = [...results] and replaces records by spread
\* copies, so the entry it was handed keeps its records.
ValidateBucket ==
    /\ validatedBucket = <<>>
    /\ validatedBucket' = <<shapeRule(consistencyRule(bucket))>>
    /\ UNCHANGED <<bucket, engineVars>>

Next ==
    \/ InitializeStart
    \/ InitializeAgain
    \/ FindFilesThen
    \/ \E uri \in HtmlDocs : OpenDocumentThen(uri)
    \/ \E uri \in HtmlDocs : OpenDocumentFails(uri)
    \/ PromiseAllThen
    \/ PromiseAllCatch
    \/ \E uri \in Docs, text \in Texts : SaveTextDocument(uri, text)
    \/ IntervalTick
    \/ Deactivate

Spec == Init /\ [][Next]_vars

\* The event loop runs every callback that is due: the timers tick, the
\* promises of the scan settle and their continuations run.
FairSpec ==
    /\ Spec
    /\ WF_vars(IntervalTick)
    /\ WF_vars(FindFilesThen)
    /\ \A uri \in HtmlDocs : WF_vars(OpenDocumentThen(uri) \/ OpenDocumentFails(uri))
    /\ WF_vars(PromiseAllThen)
    /\ WF_vars(PromiseAllCatch)

\* The engine with consumers of the validated view.
StreamNext ==
    \/ Next
    \/ \E c \in Consumers : Subscribe(c)

StreamSpec == Init /\ [][StreamNext]_vars

\* The validation applied to every bucket of at most MaxBucket occurrences.
InitValidation ==
    /\ InitEngine
    /\ docText["b.html"] = EmptyText
    /\ bucket \in Buckets
    /\ validatedBucket = <<>>

ValidationSpec == InitValidation /\ [][ValidateBucket]_vars

\* The validation applied to every pair of values of at most MaxTokens tokens.
InitNormalization ==
    /\ InitEngine
    /\ docText["b.html"] = EmptyText
    /\ bucket \in PairBuckets
    /\ validatedBucket = <<>>

NormalizationSpec == InitNormalization /\ [][ValidateBucket]_vars

\* ------------------------------------------------------- views and bags
published == _resultsByFile # <<>> /\ _resultsById # <<>>
byFile == _resultsByFile[1]
byId == _resultsById[1]

Range(seq) == {seq[i] : i \in 1..Len(seq)}
Count(seq, x) == Cardinality({i \in 1..Len(seq) : seq[i] = x})
SameBag(a, b) ==
    /\ Len(a) = Len(b)
    /\ \A x \in Range(a) \cup Range(b) : Count(a, x) = Count(b, x)

\* The occurrences document uri holds under id, tagged with the document,
\* as the by-file view gives them.
fileOccurrences(fileMap, uri, id) ==
    IF uri \in DOMAIN fileMap
    THEN LET own == SelectSeq(fileMap[uri], LAMBDA o : o.id = id)
         IN [i \in 1..Len(own) |-> newRecord(own[i], uri)]
    ELSE <<>>

\* The entries of bucket id tagged with document uri.
bucketOccurrences(idMap, uri, id) ==
    IF id \in DOMAIN idMap
    THEN SelectSeq(idMap[id], LAMBDA r : r.file = uri)
    ELSE <<>>

Ids == {"welcome", "bye"}

\* ----------------------------------------------------------------- claims
\* C1: after the initial scan and any processed save updates the by-file
\* view and the by-identifier view index one occurrence set: for every
\* document D and id I the occurrences of D with id I in the by-file view,
\* tagged with D, are exactly (as a multiset) the entries of bucket I tagged
\* with D, every entry of a bucket carries the bucket's id, and every entry
\* is tagged with a document of the by-file view.
C1_ViewsAgree ==
    published =>
        /\ \A id \in DOMAIN byId : \A i \in 1..Len(byId[id]) :
                /\ byId[id][i].id = id
                /\ byId[id][i].file \in DOMAIN byFile
        /\ \A uri \in Docs : \A id \in DOMAIN byId \cup Ids :
                SameBag(fileOccurrences(byFile, uri, id), bucketOccurrences(byId, uri, id))
        /\ \A uri \in DOMAIN byFile : \A i \in 1..Len(byFile[uri]) :
                byFile[uri][i].id \in DOMAIN byId

\* A save update replaced the occurrences of a document in a bucket that
\* another document shares.
C1_Witness ==
    /\ published
    /\ Len(applied) >= 2
    /\ \E id \in DOMAIN byId : \E i, j \in 1..Len(byId[id]) :
            byId[id][i].file # byId[id][j].file

\* C2: every key of a published by-file view maps to a non-empty sequence.
C2_NoEmptyEntry ==
    published => \A uri \in DOMAIN byFile : Len(byFile[uri]) > 0

\* C3: no subscriber callback sees a by-file view of one generation with a
\* by-identifier view of another (or none).
C3_AtomicPair == \A p \in observed : p[1] = p[2]

\* Notification s arrived while the engine was 'initializing', for a
\* document the delta updater accepts.
queuedWhileInitializing(s) ==
    /\ s \in 1..Len(notifications)
    /\ notifications[s].state = "initializing"
    /\ endsWithHtml(notifications[s].doc)

scanFailed == \E uri \in HtmlDocs : opened[uri] = "failed"

C5_ArrivalOrder ==
    \A i, j \in 1..Len(applied) :
        (/\ i < j
         /\ notifications[applied[i]].state # "initialized"
         /\ notifications[applied[j]].state # "initialized")
            => applied[i] < applied[j]

\* C6: the completion signal of every initialize() call fires only once
\* both views of the initial snapshot are published.
C6_SignalOnlyWhenReady ==
    \A i \in 1..Len(signals) : signals[i].fired => signals[i].ready

\* C7: once a document of the initial scan failed to open or parse, that
\* scan publishes neither view, the engine does not become 'initialized',
\* no save is applied and no completion signal carries a failure.
C7_ScanAborts ==
    scanFailed =>
        /\ _state = "initializing"
        /\ scan \in {"opening", "rejected"}
        /\ _resultsByFile = <<>> /\ _resultsById = <<>>
        /\ resultsByFileSubject.buffer = <<>> /\ resultsByIdSubject.buffer = <<>>
        /\ fileGen = 0 /\ idGen = 0
        /\ applied = <<>>
        /\ \A i \in 1..Len(signals) : ~signals[i].errored

\* The scan was rejected although another document was extracted, and every
\* promise has settled.
C7_Witness ==
    /\ scan = "rejected"
    /\ scanFailed
    /\ \A uri \in HtmlDocs : opened[uri] # "pending"
    /\ DOMAIN resultByFileName # {}

\* C8: an initialize() call made after a failed scan starts a new scan.
C8_FreshInitializeRescans ==
    [][(scan = "rejected" /\ Len(signals') > Len(signals))
            => (scan' = "finding" /\ _state' = "initializing")]_vars

\* C9: processing a save of a document whose extraction result equals the
\* one indexed for it (none when the document has no entry) leaves the
\* by-file view unchanged and every bucket of the by-identifier view
\* unchanged as a multiset.
C9_ResaveIdempotent ==
    [][(published /\ Len(applied') = Len(applied) + 1) =>
            LET s == applied'[Len(applied')]
                uri == notifications'[s].doc
                results == getI18nResultsForFile(docText'[uri])
                indexed == IF uri \in DOMAIN byFile THEN byFile[uri] ELSE <<>>
            IN results = indexed =>
                    /\ byFile' = byFile
                    /\ DOMAIN byId' = DOMAIN byId
                    /\ \A id \in DOMAIN byId : SameBag(byId'[id], byId[id])]_vars

\* The validated view of the published by-identifier view.
validated == validatedResultsById(byId)

allError(results) ==
    \A j \in 1..Len(results) :
        results[j].state = "error" /\ results[j].error = MismatchError

\* C10 as stated: a bucket of at least 2 occurrences in which some
\* occurrence's normalized value differs from that of the first occurrence
\* is all 'error' in the validated view.
C10_DiffersFromFirstAllError ==
    published =>
        \A id \in DOMAIN byId :
            (/\ Len(byId[id]) >= 2
             /\ \E i \in 1..Len(byId[id]) :
                    strippedString(byId[id][i].value) # strippedString(byId[id][1].value))
                => allError(validated[id])

\* C10 amended: a bucket in which two occurrences have non-empty values
\* whose normalized forms differ is all 'error', with the mismatch message,
\* in the validated view, the valueless occurrences and those of documents
\* that were not saved included.
C10_ValuedMismatchAllError ==
    published =>
        \A id \in DOMAIN byId :
            (\E i, j \in 1..Len(byId[id]) :
                /\ Truthy(byId[id][i].value)
                /\ Truthy(byId[id][j].value)
                /\ strippedString(byId[id][i].value) # strippedString(byId[id][j].value))
                => allError(validated[id])

\* After one save of b.html the bucket 'welcome' holds an occurrence of
\* a.html (not saved) and one of b.html, and both are 'error'.
C10_Witness ==
    /\ published
    /\ Len(applied) = 1
    /\ notifications[applied[1]].doc = "b.html"
    /\ "welcome" \in DOMAIN byId
    /\ Len(byId["welcome"]) = 2
    /\ byId["welcome"][1].file = "a.html"
    /\ byId["welcome"][1].state = "success"
    /\ byId["welcome"][2].file = "b.html"
    /\ allError(validated["welcome"])

\* ------------------------------------------- claims on the validation
\* The first index j >= k with '}}' at j, or 0.
firstDoubleClose(s, k) ==
    IF \E j \in k..(Len(s) - 1) : s[j] = "}" /\ s[j + 1] = "}"
    THEN CHOOSE j \in k..(Len(s) - 1) :
            /\ s[j] = "}" /\ s[j + 1] = "}"
            /\ \A h \in k..(j - 1) : ~(s[h] = "}" /\ s[h + 1] = "}")
    ELSE 0

\* Every substring delimited by double braces, from '{{' to the next '}}',
\* collapsed to '{}'.
RECURSIVE collapseDelimited(_, _)
collapseDelimited(s, i) ==
    IF i > Len(s) THEN <<>>
    ELSE LET k == firstDoubleClose(s, i + 2)
         IN IF i + 1 <= Len(s) /\ s[i] = "{" /\ s[i + 1] = "{" /\ k > 0
            THEN <<"{", "}">> \o collapseDelimited(s, k + 2)
            ELSE <<s[i]>> \o collapseDelimited(s, i + 1)

\* The normal form of a value as the contract words it: newlines deleted,
\* every double-brace-delimited placeholder collapsed, runs of spaces
\* collapsed.
describedNormalForm(v) ==
    IF v = <<>> THEN v
    ELSE <<collapseSpaces(collapseDelimited(removeNewlines(v[1]), 1), 1)>>

\* C11: a bucket whose values are pairwise equal once newlines are deleted,
\* every double-brace-delimited placeholder is collapsed to '{}' and runs of
\* spaces are collapsed has no occurrence in state 'error' after the
\* validation.
C11_NormalizedEqualNoError ==
    validatedBucket # <<>> =>
        ((\A i, j \in 1..Len(bucket) :
                describedNormalForm(bucket[i].value) = describedNormalForm(bucket[j].value))
            => \A i \in 1..Len(bucket) : validatedBucket[1][i].state # "error")

\* The occurrence carries a non-empty value.
hasValue(o) == o.value # <<>> /\ Len(o.value[1]) > 0

containsLt(o) == hasValue(o) /\ \E j \in 1..Len(o.value[1]) : o.value[1][j] = "<"

\* At least two occurrences of b have a non-empty value and the normalized
\* form of one of them differs from that of the first of them.
valuedMismatch(b) ==
    LET valued == {i \in 1..Len(b) : hasValue(b[i])}
    IN  /\ Cardinality(valued) >= 2
        /\ \E i \in valued :
                LET first == CHOOSE f \in valued : \A g \in valued : f <= g
                IN strippedString(b[i].value) # strippedString(b[first].value)

\* C12: in the validated bucket an occurrence is 'warning' with the
\* HTML-tag message exactly when it was 'success' after the consistency
\* rule (reported 'success' in a bucket the rule does not mark) and its raw
\* value contains '<'; in a bucket the rule marks every occurrence is
\* 'error' with the mismatch message, also those whose value contains '<';
\* an occurrence without a value in an unmarked bucket is left as it was.
C12_ShapeAfterConsistency ==
    validatedBucket # <<>> =>
        /\ Len(validatedBucket[1]) = Len(bucket)
        /\ \A i \in 1..Len(bucket) :
            LET out == validatedBucket[1][i]
            IN  /\ (out.state = "warning" /\ out.error = HtmlWarning)
                        <=> (/\ bucket[i].state = "success"
                             /\ ~valuedMismatch(bucket)
                             /\ containsLt(bucket[i]))
                /\ valuedMismatch(bucket) =>
                        (out.state = "error" /\ out.error = MismatchError)
                /\ (~valuedMismatch(bucket) /\ ~hasValue(bucket[i])) => out = bucket[i]
                /\ (~valuedMismatch(bucket) /\ bucket[i].state # "success") => out = bucket[i]

\* A 'success' occurrence with an HTML value became 'warning' next to a
\* valueless occurrence that was left alone.
C12_Witness ==
    /\ validatedBucket # <<>>
    /\ \E i, j \in 1..Len(bucket) :
            /\ bucket[i].state = "success"
            /\ containsLt(bucket[i])
            /\ validatedBucket[1][i].state = "warning"
            /\ ~hasValue(bucket[j])
            /\ validatedBucket[1][j] = bucket[j]

C14_ReplayLatest ==
    \A c \in subscribers :
        resultsByIdSubject.buffer # <<>>
            => received[c] = <<validatedResultsById(resultsByIdSubject.buffer[1])>>

\* The notification, document and extraction result of the save a step
\* processes.
savedNow == applied'[Len(applied')]
savedDoc == notifications'[savedNow].doc
savedResults == getI18nResultsForFile(docText'[savedDoc])

\* C15: the step processing a save of document D makes D's entry of the
\* by-file view the fresh extraction result and D's entries of every bucket
\* that result tagged with D (as a multiset); for every other document the
\* by-file entry (its presence too) and the entries of every bucket tagged
\* with it are the same before and after.
C15_SaveFrame ==
    [][(published /\ Len(applied') = Len(applied) + 1) =>
            /\ savedDoc \in DOMAIN byFile'
            /\ byFile'[savedDoc] = savedResults
            /\ \A id \in DOMAIN byId \cup DOMAIN byId' \cup Ids :
                    SameBag(bucketOccurrences(byId', savedDoc, id),
                            fileOccurrences(byFile', savedDoc, id))
            /\ \A uri \in Docs \ {savedDoc} :
                    /\ uri \in DOMAIN byFile' <=> uri \in DOMAIN byFile
                    /\ uri \in DOMAIN byFile => byFile'[uri] = byFile[uri]
                    /\ \A id \in DOMAIN byId \cup DOMAIN byId' \cup Ids :
                            bucketOccurrences(byId', uri, id) = bucketOccurrences(byId, uri, id)]_vars

\* One save of a.html was processed and a bucket it shares with b.html
\* holds b.html's occurrence first and a.html's fresh one after it.
C15_Witness ==
    /\ published
    /\ Len(applied) = 1
    /\ notifications[applied[1]].doc = "a.html"
    /\ "welcome" \in DOMAIN byId
    /\ Len(byId["welcome"]) = 2
    /\ byId["welcome"][1].file = "b.html"
    /\ byId["welcome"][2].file = "a.html"

\* C16: the by-identifier snapshot a consumer holds from before a save
\* update has the same contents after the update.
C16_SnapshotsImmutable ==
    [][(published /\ Len(applied') = Len(applied) + 1) =>
            previousIdMapAfterSave(byFile, byId, savedDoc, savedResults) = byId]_vars

\* C17: _state only moves uninitialized -> initializing -> initialized, it
\* becomes 'initialized' only in a step taken when every document of the
\* scan was opened and extracted, an initialize() call made in another
\* state than 'uninitialized' changes nothing but its own completion signal
\* (no scan, no listener, no state change, no emission), and the engine
\* publishes at most one snapshot that is not the result of a save.
C17_MonotoneLifecycle ==
    /\ [][/\ _state' # _state =>
                \/ (_state = "uninitialized" /\ _state' = "initializing")
                \/ (_state = "initializing" /\ _state' = "initialized")
          /\ (_state' = "initialized" /\ _state # "initialized") =>
                \A uri \in HtmlDocs : opened[uri] = "done" /\ uri \in DOMAIN lastExtracted
          /\ (Len(signals') > Len(signals) /\ _state # "uninitialized") =>
                UNCHANGED <<_state, registered, scanVars, pubVars, destroyed, docText,
                            notifications, intervals, applied, unhandled, lastExtracted>>]_vars
    /\ [](fileGen <= 1 + Len(applied) /\ idGen <= 1 + Len(applied))

\* initialize() was called again on the initialized engine, which has
\* published its one initial snapshot.
C17_Witness ==
    /\ Len(signals) = 2
    /\ signals[2].kind = "of"
    /\ _state = "initialized"
    /\ fileGen = 1 /\ idGen = 1

\* The index built from scratch from the extraction result processed last
\* for every document.
RECURSIVE buildIndex(_, _, _)
buildIndex(idMap, docs, i) ==
    IF i > Len(docs) THEN idMap
    ELSE buildIndex(IF docs[i] \in DOMAIN lastExtracted
                    THEN addNew(idMap, lastExtracted[docs[i]], 1, docs[i])
                    ELSE idMap,
                    docs, i + 1)

fromScratch == buildIndex(EmptyMap, <<"a.html", "b.html">>, 1)

\* C18: once published, the by-identifier view has the buckets of the index
\* built from scratch from every document's most recently processed
\* extraction result, each with the same occurrences as a multiset.
C18_NoLostUpdate ==
    published =>
        /\ DOMAIN byId = DOMAIN fromScratch
        /\ \A id \in DOMAIN byId : SameBag(byId[id], fromScratch[id])

\* Two saves of two different documents were processed.
C18_Witness ==
    /\ published
    /\ Len(applied) = 2
    /\ notifications[applied[1]].doc # notifications[applied[2]].doc
    /\ DOMAIN byId # {}

rank(state) == IF state = "success" THEN 0 ELSE IF state = "warning" THEN 1 ELSE 2

\* C19: every occurrence's state in the validated bucket is at least its
\* state in the by-identifier bucket it was derived from, in the order
\* success < warning < error, and the by-identifier bucket holds the same
\* records after the validation as before.
C19_OnlyEscalates ==
    /\ [](validatedBucket # <<>> =>
            /\ Len(validatedBucket[1]) = Len(bucket)
            /\ \A i \in 1..Len(bucket) :
                    rank(validatedBucket[1][i].state) >= rank(bucket[i].state))
    /\ [][bucket' = bucket]_vars

\* An extractor-reported 'warning' kept its state while a 'success'
\* occurrence of the same bucket was escalated.
C19_Witness ==
    /\ validatedBucket # <<>>
    /\ \E i, j \in 1..Len(bucket) :
            /\ bucket[i].state = "warning"
            /\ validatedBucket[1][i] = bucket[i]
            /\ bucket[j].state = "success"
            /\ validatedBucket[1][j].state = "warning"

\* C20: a bucket is marked (every occurrence 'error' with the mismatch
\* message, the valueless ones too) if and only if at least two of its
\* occurrences have a non-empty value and the normalized form of one of them
\* differs from that of the first of them; an unmarked bucket has no
\* occurrence with the mismatch message, so a bucket of which at most one
\* occurrence has a value is never marked.
C20_ValuelessTakeNoPart ==
    (validatedBucket # <<>> /\ bucket # <<>>) =>
        /\ valuedMismatch(bucket) <=> allError(validatedBucket[1])
        /\ ~valuedMismatch(bucket) =>
                \A i \in 1..Len(bucket) : validatedBucket[1][i].error # MismatchError
        /\ Cardinality({i \in 1..Len(bucket) : hasValue(bucket[i])}) <= 1 =>
                ~allError(validatedBucket[1])

\* A bucket of three occurrences, one of them without a value, was marked.
C20_Witness ==
    /\ validatedBucket # <<>>
    /\ Len(bucket) = 3
    /\ \E i \in 1..3 : ~hasValue(bucket[i])
    /\ allError(validatedBucket[1])

====
